---- MODULE Spec2Model ----
(***************************************************************************)
(* Model of sql_automation: the spec validator (config.py), the SQL        *)
(* renderer (renderer.py), the dry-run gate and the scheduled-query        *)
(* reconciler (bigquery_ops.py) and the four CLI commands (cli.py).        *)
(*                                                                         *)
(* Text that the program splits, strips or changes the case of is a        *)
(* sequence of one-character strings; text it only compares is a string.   *)
(***************************************************************************)
EXTENDS Integers, Sequences, FiniteSets, TLC

\* ------------------------------------------------------------------ bounds
\* Longest destination_table text of the validator's input set.
MaxLen == 5
\* Largest byte count (estimate or ceiling) of the input sets.
MaxBytes == 2
\* Most configurations the remote store holds.
MaxConfigs == 2

\* ------------------------------------------------------------------ text
\* Python's None.
None == "<None>"

LowerChars == <<"a","b","c","d","e","f","g","h","i","j","k","l","m",
                "n","o","p","q","r","s","t","u","v","w","x","y","z">>
UpperChars == <<"A","B","C","D","E","F","G","H","I","J","K","L","M",
                "N","O","P","Q","R","S","T","U","V","W","X","Y","Z">>

UpperChar(c) ==
    IF \E i \in 1..26 : LowerChars[i] = c
    THEN UpperChars[CHOOSE i \in 1..26 : LowerChars[i] = c]
    ELSE c

LowerChar(c) ==
    IF \E i \in 1..26 : UpperChars[i] = c
    THEN LowerChars[CHOOSE i \in 1..26 : UpperChars[i] = c]
    ELSE c

\* str.upper()
Upper(s) == [i \in 1..Len(s) |-> UpperChar(s[i])]
\* str.lower()
Lower(s) == [i \in 1..Len(s) |-> LowerChar(s[i])]

IsSpace(c) == c \in {" ", "\t", "\n"}

\* str.strip(): drops the leading and the trailing whitespace only.
Strip(s) ==
    LET keep == {i \in 1..Len(s) : ~IsSpace(s[i])}
    IN  IF keep = {} THEN <<>>
        ELSE LET lo == CHOOSE i \in keep : \A j \in keep : i <= j
                 hi == CHOOSE i \in keep : \A j \in keep : j <= i
             IN  SubSeq(s, lo, hi)

\* str.startswith(prefix)
StartsWith(s, prefix) ==
    /\ Len(s) >= Len(prefix)
    /\ SubSeq(s, 1, Len(prefix)) = prefix

\* str.split("."): the segments between the dots, empty ones included;
\* a text without a dot (the empty text too) is one segment.
RECURSIVE SplitDot(_)
SplitDot(s) ==
    LET dots == {i \in 1..Len(s) : s[i] = "."}
    IN  IF dots = {} THEN <<s>>
        ELSE LET k == CHOOSE i \in dots : \A j \in dots : i <= j
             IN  <<SubSeq(s, 1, k - 1)>> \o SplitDot(SubSeq(s, k + 1, Len(s)))

\* ------------------------------------------------------------------ config.py
\* The texts the validator compares against, as character sequences.
WRITE_TRUNCATE == <<"W","R","I","T","E","_","T","R","U","N","C","A","T","E">>
WRITE_APPEND == <<"W","R","I","T","E","_","A","P","P","E","N","D">>
WRITE_EMPTY == <<"W","R","I","T","E","_","E","M","P","T","Y">>
EveryPrefix == <<"e","v","e","r","y"," ">>

\* A validation error: the field (or "model", "file") it is about and, for
\* the label-set violation, the label keys that are missing.
Err(loc) == [loc |-> loc, missing |-> {}]
ErrMissing(keys) == [loc |-> "model", missing |-> keys]

AllowedWriteDispositions == {WRITE_TRUNCATE, WRITE_APPEND, WRITE_EMPTY}

\* A validator that tests membership without changing the case.
ValidateWriteDisposition_CaseSensitive(v) ==
    [ok |-> v \in AllowedWriteDispositions, value |-> v]

\* JobSpec.validate_write_disposition: upper-cases, then tests membership.
ValidateWriteDisposition(v) ==
    LET v_upper == Upper(v)
    IN  [ok |-> v_upper \in AllowedWriteDispositions, value |-> v_upper]

\* CronSlices.is_valid of the crontab library, on the cron texts of the
\* input sets: the five-field expressions below are the valid ones.
CronDaily == <<"0"," ","3"," ","*"," ","*"," ","*">>
CronHourly == <<"0"," ","*"," ","*"," ","*"," ","*">>
CronSlicesIsValid(v) == v \in {CronDaily, CronHourly}

\* JobSpec.validate_schedule
ValidateSchedule(v) ==
    LET v_stripped == Strip(v)
    IN  IF StartsWith(Lower(v_stripped), EveryPrefix)
        THEN [ok |-> TRUE, value |-> v_stripped]
        ELSE [ok |-> CronSlicesIsValid(v_stripped), value |-> v_stripped]

\* The segment counts validate_destination_table accepts.
AcceptedSegmentCount(n) == n \in {2, 3}

\* JobSpec.validate_destination_table
ValidateDestinationTable(v) ==
    LET raw == Strip(v)
        parts == SplitDot(raw)
    IN  [ok |-> AcceptedSegmentCount(Len(parts)), value |-> raw]

\* Limits.max_bytes_billed: Field(..., ge=0)
ValidateLimits(n) == n >= 0

RequiredLabels == {"owner", "domain", "environment"}
Environments == {"dev", "stage", "prod"}

\* dict.get(key): None when the key is absent.
Get(labels, key) == IF key \in DOMAIN labels THEN labels[key] ELSE None

\* Python truthiness of an optional text: None and "" are false.
Truthy(v) == v # None /\ v # ""

\* A resolution that prefers the label to the field.
ResolveEnv_LabelFirst(environment, labels) ==
    IF Truthy(Get(labels, "environment")) THEN Get(labels, "environment") ELSE environment

\* env = self.environment or self.labels.get("environment")
ResolveEnv(environment, labels) ==
    IF Truthy(environment) THEN environment ELSE Get(labels, "environment")

\* labels[key] = value
SetLabel(labels, key, value) ==
    [k \in (DOMAIN labels) \cup {key} |-> IF k = key THEN value ELSE labels[k]]

\* A validator that sets the field and forgets to write the label back.
ValidateLabelsAndEnv_FieldOnly(spec) ==
    LET missing == {lbl \in RequiredLabels : lbl \notin DOMAIN spec.labels}
        env == ResolveEnv(spec.environment, spec.labels)
    IN  IF missing # {}
        THEN [ok |-> FALSE, spec |-> spec, errors |-> {ErrMissing(missing)}]
        ELSE IF env \notin Environments
        THEN [ok |-> FALSE, spec |-> spec, errors |-> {Err("environment")}]
        ELSE [ok |-> TRUE, spec |-> [spec EXCEPT !.environment = env], errors |-> {}]

\* A validator that lets a set environment field stand in for a missing
\* environment label.
ValidateLabelsAndEnv_FieldSubstitutes(spec) ==
    LET missing == {lbl \in RequiredLabels :
                       /\ lbl \notin DOMAIN spec.labels
                       /\ ~(lbl = "environment" /\ Truthy(spec.environment))}
        env == ResolveEnv(spec.environment, spec.labels)
    IN  IF missing # {}
        THEN [ok |-> FALSE, spec |-> spec, errors |-> {ErrMissing(missing)}]
        ELSE IF env \notin Environments
        THEN [ok |-> FALSE, spec |-> spec, errors |-> {Err("environment")}]
        ELSE [ok |-> TRUE,
              spec |-> [spec EXCEPT !.environment = env,
                                    !.labels = SetLabel(spec.labels, "environment", env)],
              errors |-> {}]

\* JobSpec.validate_labels_and_env, the model validator that runs after the
\* field validators passed.
ValidateLabelsAndEnv(spec) ==
    LET missing == {lbl \in RequiredLabels : lbl \notin DOMAIN spec.labels}
        env == ResolveEnv(spec.environment, spec.labels)
    IN  IF missing # {}
        THEN [ok |-> FALSE, spec |-> spec, errors |-> {ErrMissing(missing)}]
        ELSE IF env \notin Environments
        THEN [ok |-> FALSE, spec |-> spec, errors |-> {Err("environment")}]
        ELSE [ok |-> TRUE,
              spec |-> [spec EXCEPT !.environment = env,
                                    !.labels = SetLabel(spec.labels, "environment", env)],
              errors |-> {}]

ErrIf(failed, loc) == IF failed THEN {Err(loc)} ELSE {}

\* JobSpec(**data): every field validator runs and their errors are
\* collected; the model validator runs only when there are none. A document
\* without write_disposition gets the default, which is not validated.
JobSpecInit(data) ==
    LET wd == IF data.write_disposition = <<None>>
              THEN [ok |-> TRUE, value |-> WRITE_TRUNCATE]
              ELSE ValidateWriteDisposition(data.write_disposition)
        sch == ValidateSchedule(data.schedule)
        dst == ValidateDestinationTable(data.destination_table)
        errors == ErrIf(data.name = None, "name")
                  \cup ErrIf(~sch.ok, "schedule")
                  \cup ErrIf(~dst.ok, "destination_table")
                  \cup ErrIf(~wd.ok, "write_disposition")
                  \cup ErrIf(~ValidateLimits(data.max_bytes_billed), "limits")
        fields == [name |-> data.name,
                   schedule |-> sch.value,
                   sql_template |-> data.sql_template,
                   destination_table |-> dst.value,
                   write_disposition |-> wd.value,
                   labels |-> data.labels,
                   parameters |-> data.parameters,
                   max_bytes_billed |-> data.max_bytes_billed,
                   environment |-> data.environment]
    IN  IF errors # {}
        THEN [ok |-> FALSE, spec |-> fields, errors |-> errors]
        ELSE ValidateLabelsAndEnv(fields)

\* load_job_spec: the file must exist and hold a YAML mapping.
LoadJobSpec(doc) ==
    IF doc.form # "mapping"
    THEN [ok |-> FALSE, spec |-> doc.data, errors |-> {Err("file")}]
    ELSE JobSpecInit(doc.data)

\* ------------------------------------------------------------------ renderer.py
\* A template is a sequence of pieces: literal text, or a {{ var }}
\* placeholder (var # None).
Text(chars) == [var |-> None, text |-> chars]
Var(name) == [var |-> name, text |-> <<>>]

\* The files under the templates root: a query with one placeholder, the
\* same with blanks and a newline around it, one with two placeholders, one
\* without any, and one that holds white space only.
Templates ==
    [name \in {"report.sql", "padded.sql", "two.sql", "plain.sql", "blank.sql"} |->
        CASE name = "report.sql" -> <<Text(<<"S"," ">>), Var("col")>>
          [] name = "padded.sql" -> <<Text(<<" ">>), Var("col"), Text(<<" ","\n">>)>>
          [] name = "two.sql" -> <<Var("col"), Text(<<" ">>), Var("day")>>
          [] name = "plain.sql" -> <<Text(<<"S","\n">>)>>
          [] OTHER -> <<Text(<<" ","\n">>)>>]

\* StrictUndefined: the placeholders of the template the parameters lack.
Unbound(template, parameters) ==
    {template[i].var : i \in {j \in 1..Len(template) :
        template[j].var # None /\ template[j].var \notin DOMAIN parameters}}

\* template.render(**parameters): the pieces in order, each placeholder
\* replaced by its value; an undefined value that is let through prints as
\* nothing.
RECURSIVE Substitute(_, _)
Substitute(template, parameters) ==
    IF template = <<>> THEN <<>>
    ELSE LET piece == Head(template)
         IN  (IF piece.var = None THEN piece.text
              ELSE IF piece.var \in DOMAIN parameters THEN parameters[piece.var]
              ELSE <<>>)
             \o Substitute(Tail(template), parameters)

\* An environment with the default Undefined: nothing raises.
StrictUndefined_Lenient(template, parameters) == FALSE

\* What render does with an unbound placeholder: StrictUndefined raises.
StrictUndefined(template, parameters) == Unbound(template, parameters) # {}

\* SqlRenderer.render
Render(template_path, parameters) ==
    IF template_path \notin DOMAIN Templates
    THEN [ok |-> FALSE, sql |-> <<>>, error |-> "load"]
    ELSE IF StrictUndefined(Templates[template_path], parameters)
    THEN [ok |-> FALSE, sql |-> <<>>, error |-> "render"]
    ELSE [ok |-> TRUE,
          sql |-> Strip(Substitute(Templates[template_path], parameters)),
          error |-> "none"]

\* ------------------------------------------------------------------ bigquery_ops.py
\* A parser that puts the default project on the three-part form too.
ParseTableId_AlwaysDefault(destination_table, default_project) ==
    LET parts == SplitDot(destination_table)
    IN  IF Len(parts) = 2
        THEN [ok |-> TRUE, project_id |-> default_project,
              dataset_id |-> parts[1], table_id |-> parts[2]]
        ELSE IF Len(parts) = 3
        THEN [ok |-> TRUE, project_id |-> default_project,
              dataset_id |-> parts[2], table_id |-> parts[3]]
        ELSE [ok |-> FALSE, project_id |-> <<>>, dataset_id |-> <<>>, table_id |-> <<>>]

\* parse_table_id
ParseTableId(destination_table, default_project) ==
    LET parts == SplitDot(destination_table)
    IN  IF Len(parts) = 2
        THEN [ok |-> TRUE, project_id |-> default_project,
              dataset_id |-> parts[1], table_id |-> parts[2]]
        ELSE IF Len(parts) = 3
        THEN [ok |-> TRUE, project_id |-> parts[1],
              dataset_id |-> parts[2], table_id |-> parts[3]]
        ELSE [ok |-> FALSE, project_id |-> <<>>, dataset_id |-> <<>>, table_id |-> <<>>]

\* A gate that lets every estimate through.
ExceedsBudget_Never(estimated_bytes, max_bytes_billed) == FALSE

\* A gate that also rejects an estimate equal to the ceiling.
ExceedsBudget_AtCeiling(estimated_bytes, max_bytes_billed) ==
    estimated_bytes >= max_bytes_billed

\* The budget test of dry_run_query.
ExceedsBudget(estimated_bytes, max_bytes_billed) == estimated_bytes > max_bytes_billed

\* The service's answer to client.query(dry_run=True): it raises, or gives
\* statistics in which totalBytesProcessed may be absent (bytes = -1).
NoBytes == -1
\* int(stats.get("totalBytesProcessed", 0))
EstimatedBytes(stats) == IF stats.bytes = NoBytes THEN 0 ELSE stats.bytes

\* dry_run_query: the outcome for the service's answer.
DryRunQuery(answer, max_bytes_billed) ==
    LET estimated_bytes == EstimatedBytes(answer)
    IN  IF answer.raised
        THEN [ok |-> FALSE, error |-> "service", estimated_bytes |-> 0, slot_ms |-> 0,
              carried |-> <<>>]
        ELSE IF ExceedsBudget(estimated_bytes, max_bytes_billed)
        THEN [ok |-> FALSE, error |-> "budget", estimated_bytes |-> estimated_bytes,
              slot_ms |-> answer.slot_ms,
              carried |-> <<estimated_bytes, max_bytes_billed>>]
        ELSE [ok |-> TRUE, error |-> "none", estimated_bytes |-> estimated_bytes,
              slot_ms |-> answer.slot_ms, carried |-> <<>>]

\* The resource name the service assigns: projects/{project}/transferConfigs/{id}.
\* A TransferConfig built by the client has none.
NoName == [project |-> <<>>, id |-> 0]
ScheduledQuery == "scheduled_query"

\* transfer_client.common_project_path(parsed.project_id): the project that
\* scopes the list and the create call.
Parent(parsed, default_project) == parsed.project_id

\* A configuration built under a display name other than the job's name.
TransferConfig_Renamed(job_spec, sql, parsed) ==
    [name |-> NoName,
     destination_dataset_id |-> parsed.dataset_id,
     display_name |-> "job",
     data_source_id |-> ScheduledQuery,
     params |-> [query |-> sql,
                 destination_table_name_template |-> parsed.table_id,
                 write_disposition |-> job_spec.write_disposition,
                 partitioning_field |-> <<>>],
     schedule |-> job_spec.schedule,
     disabled |-> FALSE]

\* The params payload and the TransferConfig deploy_scheduled_query builds.
TransferConfig(job_spec, sql, parsed) ==
    [name |-> NoName,
     destination_dataset_id |-> parsed.dataset_id,
     display_name |-> job_spec.name,
     data_source_id |-> ScheduledQuery,
     params |-> [query |-> sql,
                 destination_table_name_template |-> parsed.table_id,
                 write_disposition |-> job_spec.write_disposition,
                 partitioning_field |-> <<>>],
     schedule |-> job_spec.schedule,
     disabled |-> FALSE]

\* A test by the resource name: the name of the configuration the client
\* built (it has none) against the name the service assigned.
Matches_ByName(cfg, job_spec, parsed) == cfg.name = NoName

\* A test that compares the display name and the data source only.
Matches_IgnoringDataset(cfg, job_spec, parsed) ==
    /\ cfg.display_name = job_spec.name
    /\ cfg.data_source_id = ScheduledQuery

\* The test of the lookup loop: does a listed configuration match the job?
Matches(cfg, job_spec, parsed) ==
    /\ cfg.display_name = job_spec.name
    /\ cfg.destination_dataset_id = parsed.dataset_id
    /\ cfg.data_source_id = ScheduledQuery

\* A lookup that never finds a match.
FindExisting_None(listing, job_spec, parsed) == NoName

\* The lookup loop: the name of the first listed configuration that
\* matches, NoName when none does.
FindExisting(listing, job_spec, parsed) ==
    LET hits == {i \in 1..Len(listing) : Matches(listing[i], job_spec, parsed)}
    IN  IF hits = {} THEN NoName
        ELSE listing[CHOOSE i \in hits : \A j \in hits : i <= j].name

\* A mask that names every field the client sets.
UpdateMask_Everything ==
    {"params", "schedule", "display_name", "destination_dataset_id", "data_source_id",
     "disabled"}

\* update_mask = {"paths": [...]}
UpdateMask == {"params", "schedule", "display_name"}

\* ------------------------------------------------------------------ the service
\* list_transfer_configs(parent): the configurations of the project, in the
\* order of the store (read-after-write consistent).
RECURSIVE ListTransferConfigs(_, _)
ListTransferConfigs(configs, parent) ==
    IF configs = <<>> THEN <<>>
    ELSE (IF Head(configs).name.project = parent THEN <<Head(configs)>> ELSE <<>>)
         \o ListTransferConfigs(Tail(configs), parent)

\* create_transfer_config(parent, transfer_config): the service stores the
\* configuration under a name it assigns. Nothing is ever deleted, so the
\* next free id is the size of the store plus one.
CreateTransferConfig(configs, parent, transfer_config) ==
    Append(configs, [transfer_config EXCEPT
                        !.name = [project |-> parent, id |-> Len(configs) + 1]])

\* An update that reaches every configuration of the display name.
UpdateTransferConfig_ByDisplayName(configs, transfer_config, paths) ==
    [i \in 1..Len(configs) |->
        IF configs[i].display_name = transfer_config.display_name
        THEN [f \in DOMAIN configs[i] |->
                 IF f \in paths THEN transfer_config[f] ELSE configs[i][f]]
        ELSE configs[i]]

\* update_transfer_config(transfer_config, update_mask): the service copies
\* the masked fields into the configuration of that name and keeps the rest.
UpdateTransferConfig(configs, transfer_config, paths) ==
    [i \in 1..Len(configs) |->
        IF configs[i].name = transfer_config.name
        THEN [f \in DOMAIN configs[i] |->
                 IF f \in paths THEN transfer_config[f] ELSE configs[i][f]]
        ELSE configs[i]]

\* ------------------------------------------------------------------ inputs
ProjP == <<"p">>
ProjQ == <<"q">>
\* --project: absent or empty, or a project id.
Projects == {<<>>, ProjP, ProjQ}
Commands == {"validate", "render", "dry-run", "deploy"}

TableDT == <<"d", ".", "t">>
TableET == <<"e", ".", "t">>
TablePDT == <<"p", ".", "d", ".", "t">>
TableT == <<"t">>

BaseLabels == [k \in RequiredLabels |->
                  IF k = "owner" THEN "team" ELSE IF k = "domain" THEN "sales" ELSE "dev"]
BoundParameters == [k \in {"col"} |-> <<"x">>]
NoParameters == [k \in {} |-> <<>>]

\* A well-formed job-spec document.
BaseData ==
    [name |-> "daily",
     schedule |-> CronDaily,
     sql_template |-> "report.sql",
     destination_table |-> TableDT,
     write_disposition |-> <<None>>,
     labels |-> BaseLabels,
     parameters |-> BoundParameters,
     max_bytes_billed |-> 1,
     environment |-> None]

Mapping(data) == [form |-> "mapping", data |-> data]

\* The documents the commands are run on: the base job, the same job with
\* another schedule, with another dataset, with a fully qualified table,
\* and three that fail a stage (table, template parameters, missing file).
Docs ==
    {Mapping(BaseData),
     Mapping([BaseData EXCEPT !.schedule = CronHourly]),
     Mapping([BaseData EXCEPT !.destination_table = TableET]),
     Mapping([BaseData EXCEPT !.destination_table = TablePDT]),
     Mapping([BaseData EXCEPT !.destination_table = TableT]),
     Mapping([BaseData EXCEPT !.parameters = NoParameters]),
     [form |-> "absent", data |-> BaseData]}

\* The answers of the service to a dry run.
Answers ==
    {[raised |-> TRUE, bytes |-> NoBytes, slot_ms |-> 0]}
    \cup {[raised |-> FALSE, bytes |-> b, slot_ms |-> b + 1] : b \in NoBytes..MaxBytes}

\* How a list, create or update call ends: it returns, it fails without
\* effect, or (create and update) it takes effect and then fails.
ListOutcomes == {"ok", "raise"}
WriteOutcomes == {"ok", "raise", "raise_after"}

\* Configurations the store may hold before the first run: a paused
\* scheduled query of the base job in project p, a transfer of another data
\* source with the same display name and dataset, and the paused scheduled
\* query in project q.
Paused ==
    [name |-> [project |-> ProjP, id |-> 1],
     destination_dataset_id |-> <<"d">>,
     display_name |-> "daily",
     data_source_id |-> ScheduledQuery,
     params |-> [query |-> <<"o">>,
                 destination_table_name_template |-> <<"t">>,
                 write_disposition |-> WRITE_APPEND,
                 partitioning_field |-> <<>>],
     schedule |-> CronHourly,
     disabled |-> TRUE]
Foreign == [Paused EXCEPT !.data_source_id = "cross_region_copy"]
Elsewhere == [Paused EXCEPT !.name.project = ProjQ]
InitialStores == {<<>>, <<Paused>>, <<Foreign>>, <<Elsewhere>>}

\* ------------------------------------------------------------------ state
VARIABLES
    store,     \* the service's transfer configurations, in creation order
    pc,        \* where the running command is: idle, load, render, project,
               \*   estimate, list, create, update, done (parsed: see ParseStep)
    cmd,       \* the command of the run
    doc,       \* the job-spec document of the run
    project,   \* --project of the run
    spec,      \* the validated JobSpec (the document's data before validation)
    errors,    \* the violations validation reported, or the renderer's error
    sql,       \* the rendered SQL
    dry,       \* what dry_run_query gave the command, while the command holds it
    parsed,    \* the ParsedTableId of the run
    existing,  \* the name of the configuration the lookup matched
    stages,    \* the stages the run started, in order, and how each ended
    calls,     \* the calls the run made to the service, in order
    exit,      \* the exit status, NotExited while the command runs
    hist       \* history: the store the run started from and the last
               \*   finished run of the reconciler

vars == <<store, pc, cmd, doc, project, spec, errors, sql, dry, parsed, existing,
          stages, calls, exit, hist>>

NotExited == -1
NoDry == [called |-> FALSE, answer |-> [raised |-> TRUE, bytes |-> NoBytes, slot_ms |-> 0],
          max_bytes_billed |-> 0,
          result |-> [ok |-> FALSE, error |-> "none", estimated_bytes |-> 0,
                      slot_ms |-> 0, carried |-> <<>>]]
NoParsed == [ok |-> FALSE, project_id |-> <<>>, dataset_id |-> <<>>, table_id |-> <<>>]

\* A call to the service: the operation, the project that scopes it, whether
\* it returned, and for an estimate the bytes it reported and the ceiling.
Call(op, scope, ok, bytes, ceiling) ==
    [op |-> op, scope |-> scope, ok |-> ok, bytes |-> bytes, ceiling |-> ceiling]

TypeOK ==
    /\ pc \in {"idle", "load", "render", "project", "estimate", "list",
               "create", "update", "done", "parsed"}
    /\ cmd \in Commands
    /\ project \in Projects
    /\ exit \in {NotExited, 0, 1}
    /\ Len(store) <= MaxConfigs
    /\ Len(hist.runs) <= 1

Init ==
    /\ store \in InitialStores
    /\ pc = "idle"
    /\ cmd = "validate"
    /\ doc = Mapping(BaseData)
    /\ project = <<>>
    /\ spec = BaseData
    /\ errors = {}
    /\ sql = <<>>
    /\ dry = NoDry
    /\ parsed = NoParsed
    /\ existing = NoName
    /\ stages = <<>>
    /\ calls = <<>>
    /\ exit = NotExited
    /\ hist = [before |-> store, runs |-> <<>>]

\* main(argv): a command starts on a document; nothing of the previous run
\* is kept but the service's store.
Start(c, d, p) ==
    /\ pc \in {"idle", "done"}
    /\ pc' = "load"
    /\ cmd' = c
    /\ doc' = d
    /\ project' = p
    /\ spec' = d.data
    /\ errors' = {}
    /\ sql' = <<>>
    /\ dry' = NoDry
    /\ parsed' = NoParsed
    /\ existing' = NoName
    /\ stages' = <<>>
    /\ calls' = <<>>
    /\ exit' = NotExited
    /\ UNCHANGED store

\* Except handlers that return 0.
StatusOf_Zero(ok) == 0

\* The status a command returns: 0 at its end, 1 from an except handler.
StatusOf(ok) == IF ok THEN 0 ELSE 1

\* A handler that runs a failed stage again, a few times, before it returns.
Return_Retry(status) ==
    IF status = 0 \/ Len(stages) >= 4
    THEN pc' = "done" /\ exit' = status
    ELSE pc' = pc /\ exit' = exit

\* The command returns with a status.
Return(status) ==
    /\ pc' = "done"
    /\ exit' = status

\* A stage of the run and how it ended (running while it has not).
Stage(name, result) == [stage |-> name, result |-> result]
Ended(ok) == IF ok THEN "ok" ELSE "failed"
\* The stage that is running ends.
EndStage(log, ok) == [log EXCEPT ![Len(log)].result = Ended(ok)]

\* load_job_spec(path) in each command; cmd_validate returns 0 after it.
LoadStep ==
    /\ pc = "load"
    /\ LET r == LoadJobSpec(doc)
       IN  /\ stages' = Append(stages, Stage("validate", Ended(r.ok)))
           /\ spec' = r.spec
           /\ errors' = r.errors
           /\ IF ~r.ok THEN Return(StatusOf(FALSE))
              ELSE IF cmd = "validate" THEN Return(StatusOf(TRUE))
              ELSE pc' = "render" /\ exit' = exit
    /\ UNCHANGED <<store, cmd, doc, project, sql, dry, parsed, existing, calls, hist>>

\* renderer.render(spec.sql_template, spec.parameters); cmd_render returns 0
\* after writing the text out. A failure is logged with the renderer's
\* message ("failed to load ..." or "failed to render ...").
RenderStep ==
    /\ pc = "render"
    /\ LET r == Render(spec.sql_template, spec.parameters)
       IN  /\ stages' = Append(stages, Stage("render", Ended(r.ok)))
           /\ sql' = r.sql
           /\ errors' = IF r.ok THEN errors ELSE {Err(r.error)}
           /\ IF ~r.ok THEN Return(StatusOf(FALSE))
              ELSE IF cmd = "render" THEN Return(StatusOf(TRUE))
              ELSE pc' = (IF cmd = "deploy" THEN "project" ELSE "estimate") /\ exit' = exit
    /\ UNCHANGED <<store, cmd, doc, project, spec, dry, parsed, existing, calls, hist>>

\* cmd_deploy: "if not project_id: return 1".
ProjectStep ==
    /\ pc = "project"
    /\ IF project = <<>> THEN Return(StatusOf(FALSE)) ELSE pc' = "estimate" /\ exit' = exit
    /\ UNCHANGED <<store, cmd, doc, project, spec, errors, sql, dry, parsed, existing,
                   stages, calls, hist>>

\* dry_run_query(...) in cmd_dry_run and cmd_deploy; cmd_dry_run returns 0
\* after it, cmd_deploy drops the tuple and goes on to deploy_scheduled_query.
EstimateStep ==
    /\ pc = "estimate"
    /\ \E answer \in Answers :
          LET r == DryRunQuery(answer, spec.max_bytes_billed)
          IN  /\ stages' = Append(stages, Stage("estimate", Ended(r.ok)))
              /\ dry' = [called |-> TRUE, answer |-> answer,
                         max_bytes_billed |-> spec.max_bytes_billed, result |-> r]
              /\ calls' = Append(calls, Call("estimate", project, ~answer.raised,
                                             EstimatedBytes(answer), spec.max_bytes_billed))
              /\ IF ~r.ok THEN Return(StatusOf(FALSE))
                 ELSE IF cmd = "dry-run" THEN Return(StatusOf(TRUE))
                 ELSE pc' = "list" /\ exit' = exit
    /\ UNCHANGED <<store, cmd, doc, project, spec, errors, sql, parsed, existing, hist>>

\* deploy_scheduled_query up to the end of the lookup loop: parse the table
\* id, list the configurations of the parent project, look for a match.
ListStep ==
    /\ pc = "list"
    /\ parsed' = ParseTableId(spec.destination_table, project)
    /\ IF ~parsed'.ok
       THEN /\ stages' = Append(stages, Stage("reconcile", Ended(FALSE)))
            /\ Return(StatusOf(FALSE))
            /\ UNCHANGED <<calls, existing>>
       ELSE \E outcome \in ListOutcomes :
               LET parent == Parent(parsed', project)
               IN  /\ calls' = Append(calls, Call("list", parent, outcome = "ok", 0, 0))
                   /\ IF outcome = "raise"
                      THEN /\ stages' = Append(stages, Stage("reconcile", Ended(FALSE)))
                           /\ Return(StatusOf(FALSE))
                           /\ existing' = existing
                      ELSE /\ stages' = Append(stages, Stage("reconcile", "running"))
                           /\ existing' = FindExisting(ListTransferConfigs(store, parent),
                                                       spec, parsed')
                           /\ pc' = (IF existing' = NoName THEN "create" ELSE "update")
                           /\ exit' = exit
    /\ dry' = NoDry
    /\ UNCHANGED <<store, cmd, doc, project, spec, errors, sql, hist>>

\* The create branch: create_transfer_config(parent, transfer_config). A
\* store that is full refuses the call.
CreateStep ==
    /\ pc = "create"
    /\ \E outcome \in WriteOutcomes :
          LET parent == Parent(parsed, project)
          IN  /\ Len(store) >= MaxConfigs => outcome = "raise"
              /\ store' = IF outcome = "raise" THEN store
                          ELSE CreateTransferConfig(store, parent,
                                                    TransferConfig(spec, sql, parsed))
              /\ calls' = Append(calls, Call("create", parent, outcome = "ok", 0, 0))
              /\ stages' = EndStage(stages, outcome = "ok")
              /\ Return(StatusOf(outcome = "ok"))
    /\ UNCHANGED <<cmd, doc, project, spec, errors, sql, dry, parsed, existing, hist>>

\* The update branch: the built configuration takes the matched name and is
\* sent with the update mask.
UpdateStep ==
    /\ pc = "update"
    /\ \E outcome \in WriteOutcomes :
          LET transfer_config == [TransferConfig(spec, sql, parsed) EXCEPT !.name = existing]
          IN  /\ store' = IF outcome = "raise" THEN store
                          ELSE UpdateTransferConfig(store, transfer_config, UpdateMask)
              /\ calls' = Append(calls, Call("update", existing.project, outcome = "ok", 0, 0))
              /\ stages' = EndStage(stages, outcome = "ok")
              /\ Return(StatusOf(outcome = "ok"))
    /\ UNCHANGED <<cmd, doc, project, spec, errors, sql, dry, parsed, existing, hist>>

\* The four commands, run one after another on any document. The history
\* of reconciler runs is not recorded here.
Next ==
    \/ \E c \in Commands, d \in Docs, p \in Projects : Start(c, d, p) /\ UNCHANGED hist
    \/ LoadStep
    \/ RenderStep
    \/ ProjectStep
    \/ EstimateStep
    \/ ListStep
    \/ CreateStep
    \/ UpdateStep

Spec == Init /\ [][Next]_vars

\* ------------------------------------------------------------------ deploy runs
\* The calls of deploy_scheduled_query among the calls of a run.
IsReconcilerCall(c) == c.op # "estimate"
ReconcilerCalls(made) == SelectSeq(made, IsReconcilerCall)
Ops(made) == [i \in 1..Len(made) |-> made[i].op]

\* The run that just ended got as far as deploy_scheduled_query.
Reconciled == pc = "done" /\ Len(stages) > 0 /\ stages[Len(stages)].stage = "reconcile"

\* When the next run starts, the run that ended is remembered if it ran the
\* reconciler (its document and project, whether the store was empty before
\* it, the reconciler's calls, the exit status, the store after it), and the
\* store the new run starts from is noted.
Observe ==
    hist' = [before |-> store,
             runs |-> IF Reconciled
                      THEN <<[doc |-> doc, project |-> project,
                              before_empty |-> hist.before = <<>>,
                              calls |-> ReconcilerCalls(calls),
                              exit |-> exit, after |-> store]>>
                      ELSE hist.runs]

\* The documents of the deploy runs: the base job, the same job with another
\* schedule, the job with another dataset, and two that fail a stage.
DeployDocs ==
    {Mapping(BaseData),
     Mapping([BaseData EXCEPT !.schedule = CronHourly]),
     Mapping([BaseData EXCEPT !.destination_table = TableET]),
     Mapping([BaseData EXCEPT !.destination_table = TableT]),
     Mapping([BaseData EXCEPT !.parameters = NoParameters])}

\* --project of the deploy runs.
DeployProjects == {<<>>, ProjP}

\* Deploy runs one after another, the last run of the reconciler remembered.
NextDeploy ==
    \/ \E d \in DeployDocs, p \in DeployProjects : Start("deploy", d, p) /\ Observe
    \/ LoadStep
    \/ RenderStep
    \/ ProjectStep
    \/ EstimateStep
    \/ ListStep
    \/ CreateStep
    \/ UpdateStep

SpecDeploy == Init /\ [][NextDeploy]_vars

\* ------------------------------------------------------------------ the validator alone
\* Every text of at most MaxLen characters over a letter of a project, a
\* letter of a dataset, the dot and the blank.
TableChars == {"p", "d", ".", " "}
Texts == UNION {[1..k -> TableChars] : k \in 0..MaxLen}

\* The values of the environment field and of labels["environment"].
EnvFields == {None, "", "dev", "prod", "qa"}
LabelEnvs == {"", "dev", "stage", "qa"}
LabelSets ==
    {[k \in keys |-> IF k = "environment" THEN v ELSE BaseLabels[k]] :
        keys \in SUBSET RequiredLabels, v \in LabelEnvs}

\* Every way of writing a text in upper and lower case.
CaseVariants(w) ==
    {[i \in 1..Len(w) |-> IF up[i] THEN UpperChar(w[i]) ELSE LowerChar(w[i])] :
        up \in [1..Len(w) -> BOOLEAN]}

\* The write_disposition texts: the accepted values and WRITE_DELETE in
\* every case, the empty text, and an accepted value without its prefix.
WRITE_DELETE == <<"W","R","I","T","E","_","D","E","L","E","T","E">>
WriteDispositionTexts ==
    UNION {CaseVariants(w) : w \in AllowedWriteDispositions \cup {WRITE_DELETE}}
    \cup {<<>>, <<"A","P","P","E","N","D">>}

\* The documents validation is run on: the base document with every table
\* text, with every combination of environment field and labels, with every
\* write_disposition text, and with every label set next to a table or a
\* write_disposition that fails its field validator.
ValidateDocs ==
    {Mapping([BaseData EXCEPT !.destination_table = t]) : t \in Texts}
    \cup {Mapping([BaseData EXCEPT !.environment = e, !.labels = l]) :
             e \in EnvFields, l \in LabelSets}
    \cup {Mapping([BaseData EXCEPT !.write_disposition = w]) : w \in WriteDispositionTexts}
    \cup {Mapping([BaseData EXCEPT !.labels = l, !.destination_table = TableT]) :
             l \in LabelSets}
    \cup {Mapping([BaseData EXCEPT !.labels = l, !.write_disposition = WRITE_DELETE]) :
             l \in LabelSets}

\* cmd_validate has been started on some document.
InitValidate ==
    /\ store = <<>>
    /\ pc = "load"
    /\ cmd = "validate"
    /\ doc \in ValidateDocs
    /\ project \in {ProjP, ProjQ}
    /\ spec = doc.data
    /\ errors = {}
    /\ sql = <<>>
    /\ dry = NoDry
    /\ parsed = NoParsed
    /\ existing = NoName
    /\ stages = <<>>
    /\ calls = <<>>
    /\ exit = NotExited
    /\ hist = [before |-> <<>>, runs |-> <<>>]

\* parse_table_id applied to the table of a validated JobSpec, as
\* deploy_scheduled_query applies it.
ParseStep ==
    /\ pc = "done"
    /\ exit = 0
    /\ parsed' = ParseTableId(spec.destination_table, project)
    /\ pc' = "parsed"
    /\ UNCHANGED <<store, cmd, doc, project, spec, errors, sql, dry, existing, stages,
                   calls, exit, hist>>

NextValidate ==
    \/ LoadStep
    \/ ParseStep

SpecValidate == InitValidate /\ [][NextValidate]_vars

\* ------------------------------------------------------------------ properties of the validator
\* Validation returned a JobSpec.
Validated == pc \in {"done", "parsed"} /\ exit = 0
\* Validation ended, with a JobSpec or with violations.
ValidationEnded == pc \in {"done", "parsed"}

DocEnv == doc.data.environment
DocLabels == doc.data.labels
DocHasEnvLabel == "environment" \in DOMAIN DocLabels

\* C8: every JobSpec validation returns has an environment field and an
\* environment label, the two are equal, and the value is dev, stage or prod.
C8_EnvSynchronized ==
    Validated =>
        /\ spec.environment # None
        /\ "environment" \in DOMAIN spec.labels
        /\ spec.environment = spec.labels["environment"]
        /\ spec.environment \in {"dev", "stage", "prod"}

\* A document without the environment field, with a valid label, validated.
C8_Witness ==
    /\ Validated
    /\ DocEnv = None
    /\ DocHasEnvLabel
    /\ spec.environment = "stage"

\* C9 as claimed: when the document sets both the field and the label and
\* they differ, both end up equal to the label's value.
C9_LabelOverridesField ==
    (Validated /\ DocEnv # None /\ DocHasEnvLabel /\ DocEnv # DocLabels["environment"])
        => /\ spec.environment = DocLabels["environment"]
           /\ spec.labels["environment"] = DocLabels["environment"]

\* C9 amended: when the document sets both and they differ, a non-empty
\* field overrides the label (both end up equal to the field's value); only
\* an empty field gives way to the label.
C9_FieldOverridesLabel ==
    (Validated /\ DocEnv # None /\ DocHasEnvLabel /\ DocEnv # DocLabels["environment"])
        => LET winner == IF DocEnv # "" THEN DocEnv ELSE DocLabels["environment"]
           IN  /\ spec.environment = winner
               /\ spec.labels["environment"] = winner

\* Field prod and label dev: the validated JobSpec says prod twice.
C9_Witness ==
    /\ Validated
    /\ DocEnv = "prod"
    /\ DocHasEnvLabel
    /\ DocLabels["environment"] = "dev"
    /\ spec.labels["environment"] = "prod"

\* The places of the dots of a text, and the text between two places.
Dots(t) == {i \in 1..Len(t) : t[i] = "."}
NthDot(t, n) == CHOOSE i \in Dots(t) : Cardinality({j \in Dots(t) : j < i}) = n - 1
Between(t, lo, hi) == [i \in 1..(hi - lo - 1) |-> t[lo + i]]

\* C10: a destination_table of other than 2 or 3 dot-separated segments
\* fails validation; with 2 segments the parsed project is the default
\* project and dataset and table are the two segments; with 3 segments the
\* parsed project is the first segment, whatever the default project is.
C10_SegmentsDecideProject ==
    LET raw == doc.data.destination_table
        t == spec.destination_table
        n == Cardinality(Dots(t)) + 1
    IN  /\ (ValidationEnded /\ Cardinality(Dots(raw)) + 1 \notin {2, 3})
              => exit = 1 /\ Err("destination_table") \in errors
        /\ (pc = "parsed" /\ n = 2)
              => /\ parsed.ok
                 /\ parsed.project_id = project
                 /\ parsed.dataset_id = Between(t, 0, NthDot(t, 1))
                 /\ parsed.table_id = Between(t, NthDot(t, 1), Len(t) + 1)
        /\ (pc = "parsed" /\ n = 3)
              => /\ parsed.ok
                 /\ parsed.project_id = Between(t, 0, NthDot(t, 1))
                 /\ parsed.dataset_id = Between(t, NthDot(t, 1), NthDot(t, 2))
                 /\ parsed.table_id = Between(t, NthDot(t, 2), Len(t) + 1)
        /\ pc = "parsed" => n \in {2, 3}

\* A three-part table whose project is not the default project, parsed.
C10_Witness ==
    /\ pc = "parsed"
    /\ Cardinality(Dots(spec.destination_table)) = 2
    /\ parsed.project_id # project
    /\ parsed.project_id # <<>>

\* ------------------------------------------------------------------ properties of the commands
IsMutation(c) == c.op \in {"create", "update"}
LastCall == calls[Len(calls)]

\* C1: in a run, a create or update call is issued only after an estimate
\* call of the same run that returned with estimated bytes within the
\* job's max_bytes_billed.
C1_EstimateGatesMutation ==
    \A i \in 1..Len(calls) :
        IsMutation(calls[i]) =>
            \E j \in 1..(i - 1) :
                /\ calls[j].op = "estimate"
                /\ calls[j].ok
                /\ calls[j].ceiling = spec.max_bytes_billed
                /\ calls[j].bytes <= calls[j].ceiling

\* A deploy run that created a configuration.
C1_Witness ==
    /\ pc = "done"
    /\ cmd = "deploy"
    /\ Len(calls) = 3
    /\ LastCall.op = "create"
    /\ LastCall.ok

\* C3: for the estimate e the service returned and the ceiling m, the
\* estimate fails with the budget error carrying (e, m), and the command
\* exits non-zero, exactly when e > m; otherwise it succeeds and returns
\* (e, slot-ms).
C3_BudgetGate ==
    (dry.called /\ ~dry.answer.raised) =>
        LET e == IF dry.answer.bytes = NoBytes THEN 0 ELSE dry.answer.bytes
            m == dry.max_bytes_billed
            r == dry.result
        IN  /\ m = spec.max_bytes_billed
            /\ e > m => /\ ~r.ok
                        /\ r.error = "budget"
                        /\ r.carried = <<e, m>>
                        /\ pc = "done"
                        /\ exit = 1
            /\ e <= m => /\ r.ok
                         /\ r.error = "none"
                         /\ <<r.estimated_bytes, r.slot_ms>> = <<e, dry.answer.slot_ms>>
                         /\ pc = "done" => exit = 0

\* An estimate equal to the ceiling went through.
C3_Witness ==
    /\ dry.called
    /\ dry.result.ok
    /\ dry.max_bytes_billed > 0
    /\ dry.result.estimated_bytes = dry.max_bytes_billed

\* The place in the store of the configuration the lookup matched.
MatchedAt(configs) == CHOOSE i \in 1..Len(configs) : configs[i].name = existing

\* C5: the update branch changes the matched configuration in params,
\* schedule and display_name only; its name, dataset, data source and
\* disabled flag are after the update what they were before.
C5_UpdateKeepsOtherFields ==
    [][(pc = "update" /\ pc' = "done") =>
          /\ Len(store') = Len(store)
          /\ \A f \in (DOMAIN store[MatchedAt(store)]) \ {"params", "schedule", "display_name"} :
                store'[MatchedAt(store)][f] = store[MatchedAt(store)][f]]_vars

\* The paused configuration was updated to the base job and is still paused.
C5_Witness ==
    /\ pc = "done"
    /\ Len(calls) = 3
    /\ LastCall.op = "update"
    /\ LastCall.ok
    /\ Len(store) = 1
    /\ store[1].disabled
    /\ store[1].schedule = CronDaily
    /\ store[1].params.query # Paused.params.query

\* The stages of each command, in order.
Pipeline(c) ==
    IF c = "validate" THEN <<"validate">>
    ELSE IF c = "render" THEN <<"validate", "render">>
    ELSE IF c = "dry-run" THEN <<"validate", "render", "estimate">>
    ELSE <<"validate", "render", "estimate", "reconcile">>

\* C6: the stages run in the order validate, render, estimate, reconcile up
\* to the command's last stage; a stage starts only when every earlier one
\* succeeded; a failed stage ends the run with a non-zero status; the status
\* is zero only when every stage of the command succeeded.
C6_FailFast ==
    /\ Len(stages) <= Len(Pipeline(cmd))
    /\ \A i \in 1..Len(stages) : stages[i].stage = Pipeline(cmd)[i]
    /\ \A i \in 1..(Len(stages) - 1) : stages[i].result = "ok"
    /\ \A i \in 1..Len(stages) :
          stages[i].result = "failed" => pc = "done" /\ exit # 0 /\ exit # NotExited
    /\ exit = 0 => /\ pc = "done"
                   /\ Len(stages) = Len(Pipeline(cmd))
                   /\ \A i \in 1..Len(stages) : stages[i].result = "ok"
    /\ pc = "done" => exit # NotExited

\* A deploy run that stopped at a failed estimate.
C6_Witness ==
    /\ cmd = "deploy"
    /\ pc = "done"
    /\ Len(stages) = 3
    /\ stages[3].result = "failed"
    /\ exit = 1

\* C7 as claimed: with a three-part table p.d.t and a default project q
\* other than p, the parsed project is p and the list and create calls are
\* scoped by the default project q.
C7_LookupScopedByDefaultProject ==
    LET t == spec.destination_table
    IN  (parsed.ok /\ Cardinality(Dots(t)) = 2 /\ Between(t, 0, NthDot(t, 1)) # project)
        => /\ parsed.project_id = Between(t, 0, NthDot(t, 1))
           /\ \A i \in 1..Len(calls) :
                 calls[i].op \in {"list", "create"} => calls[i].scope = project

\* ------------------------------------------------------------------ properties of deploy runs
\* The run that just ended ran the reconciler, and so did an earlier run;
\* Earlier is the last such run before this one.
TwoRuns == Reconciled /\ hist.runs # <<>>
Earlier == hist.runs[1]

\* The two runs were given the same document and the same --project, the
\* store was empty before the first, and both succeeded.
SameSpecTwice ==
    /\ TwoRuns
    /\ Earlier.before_empty
    /\ Earlier.doc = doc
    /\ Earlier.project = project
    /\ Earlier.exit = 0
    /\ exit = 0

\* C2: reconciling the same spec twice from an empty store issues one create
\* call in the first run and one update call in the second; the store then
\* holds one configuration, with the params, schedule and display_name of
\* the job, and is the same as after the first run.
C2_CreateThenUpdate ==
    SameSpecTwice =>
        /\ Ops(Earlier.calls) = <<"list", "create">>
        /\ Ops(ReconcilerCalls(calls)) = <<"list", "update">>
        /\ Len(store) = 1
        /\ store[1].display_name = spec.name
        /\ store[1].schedule = spec.schedule
        /\ store[1].params.query = sql
        /\ store[1].params.destination_table_name_template = parsed.table_id
        /\ store[1].params.write_disposition = spec.write_disposition
        /\ store = Earlier.after

\* The base job deployed twice from an empty store.
C2_Witness ==
    /\ SameSpecTwice
    /\ doc = Mapping(BaseData)
    /\ Len(store) = 1

\* The triple of a stored configuration, and the triple of the job.
Triple(cfg) == <<cfg.display_name, cfg.destination_dataset_id, cfg.data_source_id>>
JobTriple == <<spec.name, parsed.dataset_id, ScheduledQuery>>

\* Two runs on jobs of the same display name and --project but of different
\* datasets, from an empty store, both succeeding.
SameNameOtherDataset ==
    /\ TwoRuns
    /\ Earlier.before_empty
    /\ Earlier.exit = 0
    /\ exit = 0
    /\ Earlier.doc.data.name = doc.data.name
    /\ Earlier.project = project
    /\ Len(Earlier.after) = 1
    /\ Earlier.after[1].destination_dataset_id # parsed.dataset_id

\* C4: the configuration the lookup matched has the job's display name,
\* dataset and data source; two jobs that share the display name and differ
\* in the dataset each take the create branch and leave two configurations.
C4_MatchOnTriple ==
    /\ pc = "update" =>
          \E i \in 1..Len(store) :
              store[i].name = existing /\ Triple(store[i]) = JobTriple
    /\ SameNameOtherDataset =>
          /\ Ops(Earlier.calls) = <<"list", "create">>
          /\ Ops(ReconcilerCalls(calls)) = <<"list", "create">>
          /\ Len(store) = 2
          /\ store[1].display_name = store[2].display_name
          /\ store[1].destination_dataset_id # store[2].destination_dataset_id

\* The job deployed to dataset d, then to dataset e.
C4_Witness ==
    /\ SameNameOtherDataset
    /\ Len(store) = 2
    /\ store[2].destination_dataset_id = <<"e">>

\* ------------------------------------------------------------------ properties of the validator, continued
\* A text has an empty dot-separated segment: it is empty, it starts or ends
\* with a dot, or two dots are next to each other.
EmptySegment(t) ==
    \/ t = <<>>
    \/ t[1] = "."
    \/ t[Len(t)] = "."
    \/ \E i \in 1..(Len(t) - 1) : t[i] = "." /\ t[i + 1] = "."

\* C11 as claimed: validation fails for every destination_table with an
\* empty dot-separated segment, also when it has 2 or 3 segments; no
\* validated JobSpec has such a table and no ParsedTableId derived from one
\* has an empty project, dataset or table.
C11_NoEmptySegment ==
    /\ (ValidationEnded /\ EmptySegment(doc.data.destination_table))
          => exit = 1 /\ Err("destination_table") \in errors
    /\ Validated => ~EmptySegment(spec.destination_table)
    /\ pc = "parsed" => /\ parsed.project_id # <<>>
                        /\ parsed.dataset_id # <<>>
                        /\ parsed.table_id # <<>>

\* Two texts are equal but for the case of their letters.
SameIgnoringCase(a, b) ==
    /\ Len(a) = Len(b)
    /\ \A i \in 1..Len(a) : UpperChar(a[i]) = UpperChar(b[i])

DocWriteDisposition == doc.data.write_disposition

\* C12: a write_disposition that is an accepted value in any case validates
\* to that accepted value in uppercase; any other value is rejected; every
\* validated JobSpec holds one of the three uppercase values.
C12_WriteDispositionNormalized ==
    /\ \A a \in {WRITE_TRUNCATE, WRITE_APPEND, WRITE_EMPTY} :
          (ValidationEnded /\ SameIgnoringCase(DocWriteDisposition, a))
              => exit = 0 /\ spec.write_disposition = a
    /\ (/\ ValidationEnded
        /\ DocWriteDisposition # <<None>>
        /\ \A a \in {WRITE_TRUNCATE, WRITE_APPEND, WRITE_EMPTY} :
              ~SameIgnoringCase(DocWriteDisposition, a))
          => exit = 1 /\ Err("write_disposition") \in errors
    /\ Validated => spec.write_disposition \in {WRITE_TRUNCATE, WRITE_APPEND, WRITE_EMPTY}

\* 'Write_Truncate' validated to WRITE_TRUNCATE.
C12_Witness ==
    /\ Validated
    /\ DocWriteDisposition = <<"W","r","i","t","e","_","T","r","u","n","c","a","t","e">>
    /\ spec.write_disposition = WRITE_TRUNCATE

\* The required label keys the document lacks.
DocMissingLabels == {"owner", "domain", "environment"} \ DOMAIN DocLabels

\* Every field of the document passes its own validator.
DocFieldsPass ==
    /\ doc.data.name # None
    /\ doc.data.schedule \in {CronDaily, CronHourly}
    /\ Cardinality(Dots(doc.data.destination_table)) + 1 \in {2, 3}
    /\ \/ DocWriteDisposition = <<None>>
       \/ \E a \in {WRITE_TRUNCATE, WRITE_APPEND, WRITE_EMPTY} :
             SameIgnoringCase(DocWriteDisposition, a)
    /\ doc.data.max_bytes_billed >= 0

\* C13 as claimed: every document whose labels lack a required key fails
\* validation with a violation that names exactly the missing keys.
C13_MissingLabelsNamed ==
    (ValidationEnded /\ DocMissingLabels # {})
        => /\ exit = 1
           /\ ErrMissing(DocMissingLabels) \in errors

\* C13 amended: every document whose labels lack a required key fails
\* validation, whatever the environment field says; when each of its fields
\* passes its own validator the one violation reported names exactly the
\* missing keys, and when a field fails only field violations are reported.
C13_MissingLabelsNamedWhenFieldsPass ==
    (ValidationEnded /\ DocMissingLabels # {})
        => /\ exit = 1
           /\ DocFieldsPass => errors = {ErrMissing(DocMissingLabels)}
           /\ ~DocFieldsPass => /\ errors # {}
                               /\ \A e \in errors : e.loc # "model" /\ e.missing = {}

\* The environment label is missing while the environment field says prod:
\* validation failed naming the environment key.
C13_Witness ==
    /\ ValidationEnded
    /\ DocMissingLabels = {"environment"}
    /\ DocEnv = "prod"
    /\ exit = 1
    /\ errors = {ErrMissing({"environment"})}

\* ------------------------------------------------------------------ the renderer in the commands
\* The values a parameter is bound to: a word, the word between white space,
\* and the empty text.
ParameterValues == {<<"x">>, <<"\t", "x", " ">>, <<>>}
\* Every binding of some of the placeholder names.
ParameterSets == UNION {[keys -> ParameterValues] : keys \in SUBSET {"col", "day"}}

\* The documents rendering is run on: every template under the root, and a
\* template that is not there, with every parameter set.
RenderDocs ==
    {Mapping([BaseData EXCEPT !.sql_template = t, !.parameters = ps]) :
        t \in (DOMAIN Templates) \cup {"gone.sql"}, ps \in ParameterSets}

\* cmd_render, cmd_dry_run or cmd_deploy has been started on some document.
InitRender ==
    /\ store \in {<<>>, <<Paused>>}
    /\ pc = "load"
    /\ cmd \in {"render", "dry-run", "deploy"}
    /\ doc \in RenderDocs
    /\ project = ProjP
    /\ spec = doc.data
    /\ errors = {}
    /\ sql = <<>>
    /\ dry = NoDry
    /\ parsed = NoParsed
    /\ existing = NoName
    /\ stages = <<>>
    /\ calls = <<>>
    /\ exit = NotExited
    /\ hist = [before |-> store, runs |-> <<>>]

NextRender ==
    \/ LoadStep
    \/ RenderStep
    \/ ProjectStep
    \/ EstimateStep
    \/ ListStep
    \/ CreateStep
    \/ UpdateStep

SpecRender == InitRender /\ [][NextRender]_vars

\* ------------------------------------------------------------------ properties of the renderer
DocTemplate == doc.data.sql_template
DocParameters == doc.data.parameters

\* The document's template is under the root and references a placeholder
\* that is not a key of the document's parameters.
DocHasUnboundPlaceholder ==
    /\ DocTemplate \in DOMAIN Templates
    /\ \E i \in 1..Len(Templates[DocTemplate]) :
          /\ Templates[DocTemplate][i].var # None
          /\ Templates[DocTemplate][i].var \notin DOMAIN DocParameters

\* The document's template is under the root and each of its placeholders
\* is a key of the document's parameters.
DocAllBound == DocTemplate \in DOMAIN Templates /\ ~DocHasUnboundPlaceholder

RenderEnded == Len(stages) >= 2 /\ stages[2].stage = "render"
Whitespace == {" ", "\t", "\n"}

\* C14: when the template references a placeholder the parameters do not
\* bind, render fails with the render error, the command exits non-zero
\* holding no SQL text, and no estimate, list, create or update call is
\* made; when every placeholder is bound render succeeds and the text it
\* returns neither starts nor ends with white space.
C14_RenderFailsClosed ==
    /\ DocHasUnboundPlaceholder =>
          /\ sql = <<>>
          /\ calls = <<>>
          /\ pc \notin {"project", "estimate", "list", "create", "update"}
          /\ RenderEnded => /\ stages[2].result = "failed"
                            /\ errors = {Err("render")}
                            /\ pc = "done"
                            /\ exit = 1
    /\ (DocAllBound /\ RenderEnded) =>
          /\ stages[2].result = "ok"
          /\ sql = <<>> \/ (sql[1] \notin Whitespace /\ sql[Len(sql)] \notin Whitespace)
          /\ cmd = "render" => pc = "done" /\ exit = 0

\* The padded template rendered with its placeholder bound to a word between
\* white space: the text is the bare word.
C14_Witness ==
    /\ RenderEnded
    /\ DocTemplate = "padded.sql"
    /\ DocParameters = [k \in {"col"} |-> <<"\t", "x", " ">>]
    /\ stages[2].result = "ok"
    /\ sql = <<"x">>

\* ------------------------------------------------------------------ properties of the remote calls
\* The number of calls of a run that are one of the given operations.
CountOps(ops) == Cardinality({i \in 1..Len(calls) : calls[i].op \in ops})

\* C15: a run makes at most one estimate call, at most one list call and at
\* most one create or update call; a list, create or update call that
\* failed is the last call of the run, and the run exits non-zero.
C15_NoRetry ==
    /\ CountOps({"estimate"}) <= 1
    /\ CountOps({"list"}) <= 1
    /\ CountOps({"create", "update"}) <= 1
    /\ \A i \in 1..Len(calls) :
          (calls[i].op \in {"list", "create", "update"} /\ ~calls[i].ok)
              => /\ i = Len(calls)
                 /\ pc = "done"
                 /\ exit = 1

\* A deploy run whose create call failed: three calls, exit status 1.
C15_Witness ==
    /\ cmd = "deploy"
    /\ pc = "done"
    /\ Ops(calls) = <<"estimate", "list", "create">>
    /\ ~calls[3].ok
    /\ exit = 1

\* ------------------------------------------------------------------ properties of deploy runs, continued
\* The places in a store of the configurations of the job's project scope
\* that have the job's triple.
JobConfigs(configs) ==
    {i \in 1..Len(configs) :
        /\ configs[i].name.project = parsed.project_id
        /\ Triple(configs[i]) = JobTriple}

\* The earlier run, on the same document and --project as this one, issued
\* a create call that took effect (the store after it holds a configuration
\* of the job's triple) and exited non-zero.
AmbiguousCreate ==
    /\ TwoRuns
    /\ Earlier.doc = doc
    /\ Earlier.project = project
    /\ Earlier.exit = 1
    /\ Ops(Earlier.calls) = <<"list", "create">>
    /\ JobConfigs(Earlier.after) # {}

\* C16: after a run whose create took effect but reported failure, the next
\* reconciler run on the same spec never creates: when its list call
\* returns it takes the update branch; the store then holds exactly one
\* configuration of the job's triple, with the params, schedule and
\* display_name of the job, and no more configurations than before the run.
C16_RerunConverges ==
    AmbiguousCreate =>
        /\ Ops(ReconcilerCalls(calls)) \in {<<"list">>, <<"list", "update">>}
        /\ ReconcilerCalls(calls)[1].ok => Ops(ReconcilerCalls(calls)) = <<"list", "update">>
        /\ Cardinality(JobConfigs(store)) = 1
        /\ \A i \in JobConfigs(store) :
              /\ store[i].display_name = spec.name
              /\ store[i].schedule = spec.schedule
              /\ store[i].params = [query |-> sql,
                                    destination_table_name_template |-> parsed.table_id,
                                    write_disposition |-> spec.write_disposition,
                                    partitioning_field |-> <<>>]
        /\ Len(store) = Len(Earlier.after)

\* The base job: a create that took effect and failed, then a run that
\* updated the configuration and exited 0.
C16_Witness ==
    /\ AmbiguousCreate
    /\ doc = Mapping(BaseData)
    /\ Ops(ReconcilerCalls(calls)) = <<"list", "update">>
    /\ exit = 0
    /\ Len(store) = 1

\* The first configuration of the job's triple in the listing of the job's
\* project scope.
FirstJobConfig == CHOOSE i \in JobConfigs(store) : \A j \in JobConfigs(store) : i <= j

\* C17: no step of any command removes a configuration or changes its
\* name; validate, render and dry-run never change the store; only the
\* create and the update call change it, and the run ends with that call;
\* a create adds one configuration and changes none, an update adds none
\* and changes at most the first listed configuration of the job's triple.
C17_NeverDeletesTouchesOne ==
    [][/\ Len(store') >= Len(store)
       /\ \A i \in 1..Len(store) : store'[i].name = store[i].name
       /\ cmd \in {"validate", "render", "dry-run"} => store' = store
       /\ pc \notin {"create", "update"} => store' = store
       /\ store' # store => pc' = "done"
       /\ pc = "create" => /\ Len(store') <= Len(store) + 1
                           /\ \A i \in 1..Len(store) : store'[i] = store[i]
       /\ pc = "update" => /\ Len(store') = Len(store)
                           /\ \A i \in 1..Len(store) :
                                 store'[i] # store[i] => i = FirstJobConfig]_vars

\* A store of two configurations of which a run updated the first and left
\* the second as it was.
C17_Witness ==
    /\ pc = "done"
    /\ Len(calls) = 3
    /\ LastCall.op = "update"
    /\ LastCall.ok
    /\ Len(store) = 2
    /\ store[1].params.query = sql
    /\ store[2].schedule # store[1].schedule

\* C18: no two configurations of one project have the same triple; a
\* create call is about to be issued only when the store holds no
\* configuration of the job's triple in the job's project scope; and each
\* configuration the run started from still has its name and its triple.
C18_TriplesUnique ==
    /\ \A i, j \in 1..Len(store) :
          (i # j /\ store[i].name.project = store[j].name.project)
              => Triple(store[i]) # Triple(store[j])
    /\ pc = "create" => JobConfigs(store) = {}
    /\ Len(hist.before) <= Len(store)
    /\ \A i \in 1..Len(hist.before) :
          /\ store[i].name = hist.before[i].name
          /\ Triple(store[i]) = Triple(hist.before[i])

\* After a run that failed in the reconciler and a run that succeeded, the
\* store holds two configurations of one project.
C18_Witness ==
    /\ TwoRuns
    /\ Earlier.exit = 1
    /\ exit = 0
    /\ Len(store) = 2
    /\ store[1].name.project = store[2].name.project

====
